---- MODULE Spec2Model ----
(***************************************************************************)
(* A model of the generic skip list of skiplist.go, instantiated at        *)
(* O = int, T = int.  Nodes live in a heap addressed by pointers; the head *)
(* sentinel is one heap cell; a level l of the Go code is index l+1 of a   *)
(* nextNodes sequence here.                                                *)
(***************************************************************************)
EXTENDS Integers, Sequences, FiniteSets, TLC

\* ---------------------------------------------------------------- bounds
\* keys are 0..MaxKey; NewSkipList is called with up to MaxLevelArg; at most
\* MaxNodes nodes are live
MaxKey == 2
MaxLevelArg == 1
MaxNodes == 3

Keys == 0..MaxKey
\* T is opaque to the code (never compared, never computed with): two
\* values, both different from T's zero value, tell an overwritten value
\* from the one before
Vals == {1, 2}
Targets == -1..(MaxKey + 1)
CtorArgs == -1..MaxLevelArg

\* ------------------------------------------------------- program values
Nil == 0
ZeroKey == 0
ZeroVal == 0
HeadPtr == 1
NoDraw == -1

\* sl      the *SkipList NewSkipList returned (NilSL when it returned nil)
\* heap    the nodes, by address: the head sentinel and the live nodes
\* last    the call in progress: its arguments and what it returns (Idle
\*         once the caller has taken the result)
\* track   whether the calls made so far are recorded in M and deleted
\* M       the plain map the calls describe: the most recent Put of every
\*         key not deleted since
\* deleted the keys given to Del and not to Put since
VARIABLES sl, heap, last, track, M, deleted

vars == <<sl, heap, last, track, M, deleted>>

\* ------------------------------------------------------------ data types
\* a nil *SkipList
NilSL == [maxLevel |-> 0, head |-> Nil]

newNode(key, val, nextNodes) == [key |-> key, val |-> val, nextNodes |-> nextNodes]

newKvPair(key, val) == <<key, val>>

\* &node[O, T]{}: zero key, zero value, nil nextNodes
emptyNode == newNode(ZeroKey, ZeroVal, <<>>)

\* NewSkipList with < for <=: a maxLevel of 0 is let through
NewSkipListZeroAllowed(maxLevel) ==
    IF maxLevel < 0 THEN NilSL ELSE [maxLevel |-> maxLevel, head |-> HeadPtr]

NewSkipList(maxLevel) ==
    IF maxLevel <= 0 THEN NilSL ELSE [maxLevel |-> maxLevel, head |-> HeadPtr]

\* the heap NewSkipList leaves behind
NewHeap(maxLevel) ==
    IF maxLevel <= 0 THEN <<>> ELSE (HeadPtr :> emptyNode)

\* p.nextNodes[l]
next(hp, p, l) == hp[p].nextNodes[l + 1]

Level(s, hp) ==
    IF s.head = Nil \/ hp[s.head].nextNodes = <<>>
    THEN 0
    ELSE Len(hp[s.head].nextNodes)

\* ------------------------------------------------------------ traversal
\* searchRight with <= for <: the walk steps over a node holding the key
RECURSIVE searchRightPastEqual(_, _, _, _)
searchRightPastEqual(hp, p, l, key) ==
    IF next(hp, p, l) # Nil /\ hp[next(hp, p, l)].key <= key
    THEN searchRightPastEqual(hp, next(hp, p, l), l, key)
    ELSE p

RECURSIVE searchRight(_, _, _, _)
searchRight(hp, p, l, key) ==
    IF next(hp, p, l) # Nil /\ hp[next(hp, p, l)].key < key
    THEN searchRight(hp, next(hp, p, l), l, key)
    ELSE p

RECURSIVE getLoop(_, _, _, _)
getLoop(hp, p, l, key) ==
    IF l < 0 THEN Nil
    ELSE LET q == searchRight(hp, p, l, key) IN
         IF next(hp, q, l) # Nil /\ hp[next(hp, q, l)].key = key
         THEN next(hp, q, l)
         ELSE getLoop(hp, q, l - 1, key)

get(s, hp, key) ==
    IF Level(s, hp) = 0 THEN Nil
    ELSE getLoop(hp, s.head, Len(hp[s.head].nextNodes) - 1, key)

RECURSIVE ceilLoop(_, _, _, _)
ceilLoop(hp, p, l, target) ==
    IF l < 0 THEN next(hp, p, 0)
    ELSE LET q == searchRight(hp, p, l, target) IN
         IF next(hp, q, l) # Nil /\ hp[next(hp, q, l)].key = target
         THEN next(hp, q, l)
         ELSE ceilLoop(hp, q, l - 1, target)

ceil(s, hp, target) ==
    IF Level(s, hp) = 0 THEN Nil
    ELSE ceilLoop(hp, s.head, Len(hp[s.head].nextNodes) - 1, target)

RECURSIVE floorLoop(_, _, _, _)
floorLoop(hp, p, l, target) ==
    IF l < 0 THEN p
    ELSE LET q == searchRight(hp, p, l, target) IN
         IF next(hp, q, l) # Nil /\ hp[next(hp, q, l)].key = target
         THEN next(hp, q, l)
         ELSE floorLoop(hp, q, l - 1, target)

floor(s, hp, target) ==
    IF Level(s, hp) = 0 THEN Nil
    ELSE floorLoop(hp, s.head, Len(hp[s.head].nextNodes) - 1, target)

\* -------------------------------------------------------------- queries
Get(s, hp, key) ==
    IF Level(s, hp) = 0 THEN [val |-> ZeroVal, exist |-> FALSE]
    ELSE LET n == get(s, hp, key) IN
         IF n # Nil THEN [val |-> hp[n].val, exist |-> TRUE]
         ELSE [val |-> ZeroVal, exist |-> FALSE]

\* rangeLoop with < for <=: the end bound is exclusive
RECURSIVE rangeLoopExclusive(_, _, _)
rangeLoopExclusive(hp, n, end) ==
    IF n # Nil /\ hp[n].key < end
    THEN <<newKvPair(hp[n].key, hp[n].val)>> \o rangeLoopExclusive(hp, next(hp, n, 0), end)
    ELSE <<>>

RECURSIVE rangeLoop(_, _, _)
rangeLoop(hp, n, end) ==
    IF n # Nil /\ hp[n].key <= end
    THEN <<newKvPair(hp[n].key, hp[n].val)>> \o rangeLoop(hp, next(hp, n, 0), end)
    ELSE <<>>

Range(s, hp, start, end) ==
    IF Level(s, hp) = 0 THEN <<>>
    ELSE LET ceilingNode == ceil(s, hp, start) IN
         IF ceilingNode = Nil THEN <<>>
         ELSE rangeLoop(hp, ceilingNode, end)

\* Ceil answering found = true on a container with no level
CeilFoundOnEmpty(s, hp, target) ==
    IF Level(s, hp) = 0 THEN [pair |-> <<>>, found |-> TRUE]
    ELSE LET ceilingNode == ceil(s, hp, target) IN
         IF ceilingNode # Nil
         THEN [pair |-> newKvPair(hp[ceilingNode].key, hp[ceilingNode].val), found |-> TRUE]
         ELSE [pair |-> <<>>, found |-> FALSE]

Ceil(s, hp, target) ==
    IF Level(s, hp) = 0 THEN [pair |-> <<>>, found |-> FALSE]
    ELSE LET ceilingNode == ceil(s, hp, target) IN
         IF ceilingNode # Nil
         THEN [pair |-> newKvPair(hp[ceilingNode].key, hp[ceilingNode].val), found |-> TRUE]
         ELSE [pair |-> <<>>, found |-> FALSE]

Floor(s, hp, target) ==
    IF Level(s, hp) = 0 THEN [pair |-> <<>>, found |-> FALSE]
    ELSE LET floorNode == floor(s, hp, target) IN
         IF floorNode # next(hp, s.head, 0)
         THEN [pair |-> newKvPair(hp[floorNode].key, hp[floorNode].val), found |-> TRUE]
         ELSE [pair |-> <<>>, found |-> FALSE]

\* ------------------------------------------------------------ randLevel
\* flips[i] is the i-th result of rand.Intn(2)
RECURSIVE randLoop(_, _, _, _)
randLoop(flips, i, randL, maxLevel) ==
    IF flips[i] = 0 /\ randL < maxLevel
    THEN randLoop(flips, i + 1, randL + 1, maxLevel)
    ELSE randL

\* randLevel returning a count of slots, one more than the level index
randLevelAsHeight(s, flips) == randLoop(flips, 1, 0, s.maxLevel) + 1

randLevel(s, flips) == randLoop(flips, 1, 0, s.maxLevel)

\* the results rand.Intn(2) can give over the maxLevel + 1 calls randLevel
\* makes at most
Flips(s) == [1..(s.maxLevel + 1) -> {0, 1}]

\* ------------------------------------------------------------------ Put
\* a pointer no live node uses
newPtr(hp) == CHOOSE p \in 2..(Cardinality(DOMAIN hp) + 2) : p \notin DOMAIN hp

RECURSIVE grow(_, _)
grow(nextNodes, randL) ==
    IF Len(nextNodes) - 1 < randL
    THEN grow(Append(nextNodes, Nil), randL)
    ELSE nextNodes

RECURSIVE putSearchRight(_, _, _, _)
putSearchRight(hp, p, l, key) ==
    IF next(hp, p, l) # Nil /\ hp[p].key < key
    THEN putSearchRight(hp, next(hp, p, l), l, key)
    ELSE p

\* putLoop stopping above level 0: the new node is never linked at the base
RECURSIVE putLoopAboveBase(_, _, _, _, _)
putLoopAboveBase(hp, p, l, n, key) ==
    IF l < 1 THEN [heap |-> hp, panic |-> FALSE]
    ELSE LET q == putSearchRight(hp, p, l, key) IN
         IF l >= Len(hp[n].nextNodes)
         THEN [heap |-> hp, panic |-> TRUE]
         ELSE putLoopAboveBase([hp EXCEPT ![n].nextNodes[l + 1] = next(hp, q, l),
                                          ![q].nextNodes[l + 1] = n],
                               q, l - 1, n, key)

\* the splice loop; panic: n.nextNodes[l] with l out of range
RECURSIVE putLoop(_, _, _, _, _)
putLoop(hp, p, l, n, key) ==
    IF l < 0 THEN [heap |-> hp, panic |-> FALSE]
    ELSE LET q == putSearchRight(hp, p, l, key) IN
         IF l >= Len(hp[n].nextNodes)
         THEN [heap |-> hp, panic |-> TRUE]
         ELSE putLoop([hp EXCEPT ![n].nextNodes[l + 1] = next(hp, q, l),
                                 ![q].nextNodes[l + 1] = n],
                      q, l - 1, n, key)

\* update that stores nothing
updateDropped(hp, n, val) == hp

\* n.val = val
update(hp, n, val) == [hp EXCEPT ![n].val = val]

\* result: the heap after the call, whether it panicked, the height drawn
Put(s, hp, key, val, flips) ==
    IF Level(s, hp) = 0
    THEN [heap |-> hp, panic |-> FALSE, h |-> NoDraw]
    ELSE LET n == get(s, hp, key) IN
         IF n # Nil
         THEN [heap |-> update(hp, n, val), panic |-> FALSE, h |-> NoDraw]
         ELSE LET randL == randLevel(s, flips)
                  grown == [hp EXCEPT ![s.head].nextNodes = grow(@, randL)]
                  nn    == newPtr(hp)
                  hp2   == grown @@ (nn :> newNode(key, val, [i \in 1..(randL + 1) |-> Nil]))
                  r     == putLoop(hp2, s.head, Len(hp2[s.head].nextNodes) - 1, nn, key)
              IN IF r.panic
                 THEN [heap |-> hp, panic |-> TRUE, h |-> randL]
                 ELSE [heap |-> r.heap, panic |-> FALSE, h |-> randL]

\* ------------------------------------------------------------------ Del
RECURSIVE delLoop(_, _, _, _)
delLoop(hp, p, l, key) ==
    IF l < 0 THEN hp
    ELSE LET q == searchRight(hp, p, l, key) IN
         IF next(hp, q, l) # Nil /\ hp[next(hp, q, l)].key = key
         THEN delLoop([hp EXCEPT ![q].nextNodes[l + 1] = next(hp, next(hp, q, l), l)],
                      q, l - 1, key)
         ELSE delLoop(hp, q, l - 1, key)

\* the number of trailing nil levels of the head, from level l down
RECURSIVE cutDif(_, _)
cutDif(nextNodes, l) ==
    IF l < 0 THEN 0
    ELSE IF nextNodes[l + 1] # Nil THEN 0
    ELSE 1 + cutDif(nextNodes, l - 1)

\* cut dropping one level more than the empty ones
cutOneMore(s, hp) ==
    LET dif == cutDif(hp[s.head].nextNodes, Level(s, hp) - 1) IN
    [hp EXCEPT ![s.head].nextNodes = SubSeq(@, 1, Level(s, hp) - dif - 1)]

cut(s, hp) ==
    LET dif == cutDif(hp[s.head].nextNodes, Level(s, hp) - 1) IN
    [hp EXCEPT ![s.head].nextNodes = SubSeq(@, 1, Level(s, hp) - dif)]

\* nodes no pointer reaches any more are reclaimed
RECURSIVE reach(_, _)
reach(hp, R) ==
    LET R2 == R \cup {q \in DOMAIN hp :
                        \E p \in R : \E i \in 1..Len(hp[p].nextNodes) :
                            hp[p].nextNodes[i] = q}
    IN IF R2 = R THEN R ELSE reach(hp, R2)

collect(s, hp) ==
    IF reach(hp, {s.head}) = DOMAIN hp THEN hp
    ELSE [p \in reach(hp, {s.head}) |-> hp[p]]

Del(s, hp, key) ==
    IF Level(s, hp) = 0 THEN hp
    ELSE LET n == get(s, hp, key) IN
         IF n # Nil THEN hp
         ELSE collect(s, cut(s, delLoop(hp, s.head, Len(hp[s.head].nextNodes) - 1, key)))

\* ------------------------------------------------- the calls, as actions
\* what the last call was, with its arguments and what it returned
Call(op, key, end, val, h, found, pair, out, panic) ==
    [op |-> op, key |-> key, end |-> end, val |-> val, h |-> h,
     found |-> found, pair |-> pair, out |-> out, panic |-> panic]

\* no call in progress
Idle == Call("idle", 0, 0, 0, NoDraw, FALSE, <<>>, <<>>, FALSE)

\* the plain map the calls describe: Put sets, Del removes
MapPut(m, k, v) == [x \in DOMAIN m \cup {k} |-> IF x = k THEN v ELSE m[x]]
MapDel(m, k) == [x \in DOMAIN m \ {k} |-> m[x]]

\* a method can be called on a usable container once the last call returned
Callable == sl # NilSL /\ last = Idle

CallPut ==
    /\ Callable
    /\ \E key \in Keys, val \in Vals, flips \in Flips(sl) :
         LET r == Put(sl, heap, key, val, flips) IN
         /\ Cardinality(DOMAIN r.heap) <= MaxNodes + 1
         /\ heap' = r.heap
         /\ M' = IF track THEN MapPut(M, key, val) ELSE M
         /\ deleted' = IF track THEN deleted \ {key} ELSE deleted
         /\ last' = Call("Put", key, 0, val, r.h, FALSE, <<>>, <<>>, r.panic)
    /\ UNCHANGED <<sl, track>>

CallDel ==
    /\ Callable
    /\ \E key \in Keys :
         /\ heap' = Del(sl, heap, key)
         /\ M' = IF track THEN MapDel(M, key) ELSE M
         /\ deleted' = IF track THEN deleted \cup {key} ELSE deleted
         /\ last' = Call("Del", key, 0, 0, NoDraw, FALSE, <<>>, <<>>, FALSE)
    /\ UNCHANGED <<sl, track>>

\* Get whose walk assigns sl.head where the code assigns its local head
CallGetMovingHead ==
    /\ Callable
    /\ \E key \in Keys :
         LET r == Get(sl, heap, key) IN
         /\ last' = Call("Get", key, 0, r.val, NoDraw, r.exist, <<>>, <<>>, FALSE)
         /\ sl' = IF Level(sl, heap) = 0 THEN sl
                  ELSE [sl EXCEPT !.head =
                           searchRight(heap, sl.head, Level(sl, heap) - 1, key)]
    /\ UNCHANGED <<heap, track, M, deleted>>

CallGet ==
    /\ Callable
    /\ \E key \in Keys :
         LET r == Get(sl, heap, key) IN
         last' = Call("Get", key, 0, r.val, NoDraw, r.exist, <<>>, <<>>, FALSE)
    /\ UNCHANGED <<sl, heap, track, M, deleted>>

CallRange ==
    /\ Callable
    /\ \E start \in Targets, end \in Targets :
         last' = Call("Range", start, end, 0, NoDraw, FALSE, <<>>,
                      Range(sl, heap, start, end), FALSE)
    /\ UNCHANGED <<sl, heap, track, M, deleted>>

CallCeil ==
    /\ Callable
    /\ \E target \in Targets :
         LET r == Ceil(sl, heap, target) IN
         last' = Call("Ceil", target, 0, 0, NoDraw, r.found, r.pair, <<>>, FALSE)
    /\ UNCHANGED <<sl, heap, track, M, deleted>>

CallFloor ==
    /\ Callable
    /\ \E target \in Targets :
         LET r == Floor(sl, heap, target) IN
         last' = Call("Floor", target, 0, 0, NoDraw, r.found, r.pair, <<>>, FALSE)
    /\ UNCHANGED <<sl, heap, track, M, deleted>>

CallLevel ==
    /\ Callable
    /\ last' = Call("Level", 0, 0, Level(sl, heap), NoDraw, FALSE, <<>>, <<>>, FALSE)
    /\ UNCHANGED <<sl, heap, track, M, deleted>>

\* the caller takes the result; the next call can start
Return ==
    /\ last # Idle
    /\ last' = Idle
    /\ UNCHANGED <<sl, heap, track, M, deleted>>

Next ==
    \/ CallPut
    \/ CallDel
    \/ CallGet
    \/ CallRange
    \/ CallCeil
    \/ CallFloor
    \/ CallLevel
    \/ Return

\* a container freshly built by NewSkipList
Init ==
    \E maxLevel \in CtorArgs :
        /\ sl = NewSkipList(maxLevel)
        /\ heap = NewHeap(maxLevel)
        /\ track = TRUE
        /\ M = <<>>
        /\ deleted = {}
        /\ last = Call("New", maxLevel, 0, 0, NoDraw, FALSE, <<>>, <<>>, FALSE)

Spec == Init /\ [][Next]_vars

\* ------------------------------------------- well-formed list states
Min(S) == CHOOSE x \in S : \A y \in S : x <= y
Max(S) == CHOOSE x \in S : \A y \in S : x >= y

\* the heap of the well-formed list holding keys K, K[k] of height ht[k]
\* and value vs[k]: every level's chain ascending, forward[l] the nearest
\* later node of height > l, as many head slots as the tallest node
WellFormedHeap(K, ht, vs) ==
    LET ptr(k) == 2 + Cardinality({j \in K : j < k})
        first(S) == IF S = {} THEN Nil ELSE ptr(Min(S))
        top == IF K = {} THEN 0 ELSE Max({ht[k] : k \in K})
        headNode == newNode(ZeroKey, ZeroVal,
                            [i \in 1..top |-> first({j \in K : ht[j] >= i})])
        nodeOf(k) == newNode(k, vs[k],
                             [i \in 1..ht[k] |-> first({j \in K : j > k /\ ht[j] >= i})])
    IN [p \in {HeadPtr} \cup {ptr(k) : k \in K} |->
           IF p = HeadPtr THEN headNode
           ELSE nodeOf(CHOOSE k \in K : ptr(k) = p)]

\* any well-formed list; hist: whether the calls made on it are recorded
WellFormedInit(hist) ==
    \E maxLevel \in 1..MaxLevelArg :
      \E K \in SUBSET Keys :
        \E ht \in [K -> 1..(maxLevel + 1)], vs \in [K -> Vals] :
            /\ Cardinality(K) <= MaxNodes
            /\ sl = NewSkipList(maxLevel)
            /\ heap = WellFormedHeap(K, ht, vs)
            /\ track = hist
            /\ M = IF hist THEN vs ELSE <<>>
            /\ deleted = {}
            /\ last = Idle

InitWF == WellFormedInit(FALSE)

SpecWF == InitWF /\ [][Next]_vars

InitHist == WellFormedInit(TRUE)

SpecHist == InitHist /\ [][Next]_vars

\* ------------------------------------------------ what the claims speak of
\* the nodes reached from n by following forward links at level l
RECURSIVE chain(_, _, _)
chain(hp, n, l) ==
    IF n = Nil THEN <<>> ELSE <<n>> \o chain(hp, next(hp, n, l), l)

ChainAt(s, hp, l) == chain(hp, next(hp, s.head, l), l)

KeysAt(s, hp, l) ==
    LET c == ChainAt(s, hp, l) IN [i \in 1..Len(c) |-> hp[c[i]].key]

\* the live nodes, the key set K and the value stored for a key
LiveNodes(s, hp) == DOMAIN hp \ {s.head}
KeySet(s, hp) == {hp[p].key : p \in LiveNodes(s, hp)}
ValOf(s, hp, k) == hp[CHOOSE p \in LiveNodes(s, hp) : hp[p].key = k].val

RECURSIVE IsSubseq(_, _)
IsSubseq(a, b) ==
    IF a = <<>> THEN TRUE
    ELSE IF b = <<>> THEN FALSE
    ELSE IF Head(a) = Head(b) THEN IsSubseq(Tail(a), Tail(b))
    ELSE IsSubseq(a, Tail(b))

Ascending(q) == \A i \in 1..(Len(q) - 1) : q[i] < q[i + 1]

\* every level's chain strictly ascending, each level a subsequence of the
\* one below, every live node on level 0, Level() >= 1 when K is non-empty
WellFormed(s, hp) ==
    /\ s # NilSL
    /\ \A l \in 0..(Level(s, hp) - 1) : Ascending(KeysAt(s, hp, l))
    /\ \A l \in 1..(Level(s, hp) - 1) : IsSubseq(ChainAt(s, hp, l), ChainAt(s, hp, l - 1))
    /\ Level(s, hp) = 0 => LiveNodes(s, hp) = {}
    /\ Level(s, hp) > 0 =>
         LET c == ChainAt(s, hp, 0) IN LiveNodes(s, hp) = {c[i] : i \in 1..Len(c)}

\* the pairs of K with lo <= key <= hi, ascending by key
RECURSIVE PairsBetween(_, _, _, _)
PairsBetween(s, hp, lo, hi) ==
    LET S == {k \in KeySet(s, hp) : lo <= k /\ k <= hi} IN
    IF S = {} THEN <<>>
    ELSE <<<<Min(S), ValOf(s, hp, Min(S))>>>> \o PairsBetween(s, hp, Min(S) + 1, hi)

\* C1: from a fresh container, after any sequence of Put calls, Get(k)
\* returns found = true and the value of the most recent Put(k, .), for
\* every key k that was Put (M holds the most recent Put of every key).
C1_InsertThenGet ==
    (track /\ last.op = "Get" /\ last.key \in DOMAIN M)
        => (last.found /\ last.val = M[last.key])

C3_RangeCorrect ==
    (last.op = "Range" /\ WellFormed(sl, heap))
        => last.out = PairsBetween(sl, heap, last.key, last.end)

C3_Witness ==
    /\ last.op = "Range"
    /\ WellFormed(sl, heap)
    /\ Cardinality(KeySet(sl, heap)) = 3
    /\ Len(last.out) = 2
    /\ Level(sl, heap) = 2

\* C4: in a well-formed list holding a non-empty key set K, Floor(t)
\* returns found = true with the pair of the largest key of K that is <= t
\* when there is one, and found = false exactly when t is smaller than
\* every key of K.
C4_FloorCorrect ==
    (last.op = "Floor" /\ WellFormed(sl, heap) /\ KeySet(sl, heap) # {})
        => LET S == {k \in KeySet(sl, heap) : k <= last.key} IN
           IF S = {}
           THEN ~last.found
           ELSE last.found /\ last.pair = <<Max(S), ValOf(sl, heap, Max(S))>>

\* C5: in a well-formed list holding key set K, Ceil(t) returns found = true
\* with the pair of the smallest key of K that is >= t when there is one,
\* and found = false exactly when t is greater than every key of K (or K
\* is empty).
C5_CeilCorrect ==
    (last.op = "Ceil" /\ WellFormed(sl, heap))
        => LET S == {k \in KeySet(sl, heap) : k >= last.key} IN
           IF S = {}
           THEN ~last.found
           ELSE last.found /\ last.pair = <<Min(S), ValOf(sl, heap, Min(S))>>

C5_Witness ==
    /\ last.op = "Ceil"
    /\ WellFormed(sl, heap)
    /\ last.found
    /\ last.pair[1] > last.key
    /\ \E k \in KeySet(sl, heap) : k < last.key

C7_PutDelTotal ==
    [][(last'.op \in {"Put", "Del"} /\ WellFormed(sl, heap)) => ~last'.panic]_vars

\* C8: in every reachable state, for every level l with 0 < l < Level(),
\* the keys reached at level l are a subsequence, in the same order, of
\* the keys reached at level l - 1.
C8_LeveledSubsequence ==
    sl # NilSL =>
        \A l \in 1..(Level(sl, heap) - 1) :
            IsSubseq(KeysAt(sl, heap, l), KeysAt(sl, heap, l - 1))

C8_Witness ==
    /\ last.op = "Put"
    /\ last.h = 1
    /\ ~last.panic
    /\ Len(KeysAt(sl, heap, 1)) = 2
    /\ Len(KeysAt(sl, heap, 0)) = 3

\* C9: on a container freshly built by NewSkipList(maxLevel), maxLevel > 0,
\* with nothing inserted, Level() is 0, Get, Ceil and Floor report
\* found = false for every key, Range yields no pairs for all bounds, and
\* Del leaves the container unchanged.
C9_EmptyContainer ==
    [][(sl # NilSL /\ heap = NewHeap(sl.maxLevel))
         => /\ Level(sl, heap) = 0
            /\ (last'.op = "Level" => last'.val = 0)
            /\ (last'.op \in {"Get", "Ceil", "Floor"} => ~last'.found)
            /\ (last'.op = "Range" => last'.out = <<>>)
            /\ (last'.op = "Del" => (heap' = heap /\ sl' = sl /\ ~last'.panic))]_vars

C9_Witness ==
    /\ sl # NilSL
    /\ heap = NewHeap(sl.maxLevel)
    /\ last.op = "Floor"
    /\ ~last.found
    /\ deleted # {}

\* C10: in a well-formed list, Del(k) for a key k that is not present
\* leaves the structure unchanged: the same keys, values, forward links at
\* every level and Level(); it raises no fault.
C10_IdempotentDeletion ==
    [][(last'.op = "Del" /\ WellFormed(sl, heap) /\ last'.key \notin KeySet(sl, heap))
         => (heap' = heap /\ sl' = sl /\ ~last'.panic)]_vars

C10_Witness ==
    /\ last.op = "Del"
    /\ WellFormed(sl, heap)
    /\ last.key \notin KeySet(sl, heap)
    /\ Cardinality(KeySet(sl, heap)) = 2
    /\ Level(sl, heap) = 2

\* C11: NewSkipList(maxLevel) yields nil for every maxLevel <= 0, and for
\* every maxLevel > 0 a container with that maxLevel, a head sentinel with
\* no forward links and Level() = 0.
C11_ConstructionValidation ==
    last.op = "New"
        => IF last.key <= 0
           THEN sl = NilSL
           ELSE /\ sl # NilSL
                /\ sl.maxLevel = last.key
                /\ sl.head # Nil
                /\ heap[sl.head].nextNodes = <<>>
                /\ DOMAIN heap = {sl.head}
                /\ Level(sl, heap) = 0

C11_Witness ==
    /\ last.op = "New"
    /\ last.key = 0
    /\ sl = NilSL

\* C13: the height randLevel draws is in 0..maxLevel for every outcome of
\* the coin flips, and in every reachable state 0 <= Level() <= maxLevel + 1
\* and every node has between 1 and maxLevel + 1 forward-link slots.
C13_LevelBound ==
    sl # NilSL
        => /\ \A flips \in Flips(sl) : randLevel(sl, flips) \in 0..sl.maxLevel
           /\ (last.op = "Put" /\ last.h # NoDraw) => last.h \in 0..sl.maxLevel
           /\ Level(sl, heap) \in 0..(sl.maxLevel + 1)
           /\ \A p \in LiveNodes(sl, heap) :
                Len(heap[p].nextNodes) \in 1..(sl.maxLevel + 1)

C13_Witness ==
    /\ last.op = "Put"
    /\ ~last.panic
    /\ last.h = sl.maxLevel
    /\ Level(sl, heap) = sl.maxLevel + 1
    /\ \E p \in LiveNodes(sl, heap) : Len(heap[p].nextNodes) = 1

\* Level() is 0 when no key is held and otherwise the number of slots of the
\* tallest live node, the head's topmost forward link then being set
LevelIsTallest(s, hp) ==
    /\ Level(s, hp) = IF LiveNodes(s, hp) = {} THEN 0
                      ELSE Max({Len(hp[p].nextNodes) : p \in LiveNodes(s, hp)})
    /\ Level(s, hp) > 0 => next(hp, s.head, Level(s, hp) - 1) # Nil

\* C12: after every Put and every Del from a well-formed state, Level() is
\* 0 when the container holds no key and otherwise 1 + the largest level
\* index a live node occupies (the head's topmost forward link is set), so
\* deleting the only node of the top level trims it and deleting the last
\* key returns Level() to 0.
C12_ActiveLevel ==
    [][(last'.op \in {"Put", "Del"} /\ WellFormed(sl, heap))
         => /\ LevelIsTallest(sl', heap')
            /\ (last'.op = "Del" /\ KeySet(sl, heap) = {last'.key})
                  => Level(sl', heap') = 0
            /\ (last'.op = "Del" /\ Level(sl, heap) > 0
                  /\ KeysAt(sl, heap, Level(sl, heap) - 1) = <<last'.key>>)
                  => Level(sl', heap') < Level(sl, heap)]_vars

\* Level() is that of the tallest live node in every state
LevelIsTallestAlways == sl # NilSL => LevelIsTallest(sl, heap)

\* C14: in any list state, Get, Range, Ceil, Floor and Level leave the
\* container unchanged: the key set, every value, every forward link at
\* every level, the head's forward-array length and maxLevel are the same
\* after the call as before.
C14_QueriesReadOnly ==
    [][(last'.op \in {"Get", "Range", "Ceil", "Floor", "Level"})
         => (heap' = heap /\ sl' = sl)]_vars

C14_Witness ==
    /\ last.op = "Get"
    /\ last.found
    /\ Cardinality(LiveNodes(sl, heap)) = 3
    /\ Level(sl, heap) = 2

\* the keys at level l, none when the head has no such level
KeysAtOrNone(s, hp, l) == IF l < Level(s, hp) THEN KeysAt(s, hp, l) ELSE <<>>

\* an ascending sequence with k put at its sorted position, and with k removed
InsertSorted(q, k) ==
    SelectSeq(q, LAMBDA x : x < k) \o <<k>> \o SelectSeq(q, LAMBDA x : x > k)
Remove(q, k) == SelectSeq(q, LAMBDA x : x # k)

\* C15: in a well-formed list with Level() >= 1 not holding k, Put(k, v)
\* with drawn height h creates one node with h + 1 slots and links it, at
\* each level 0..h, after the rightmost node with a smaller key; levels
\* above h keep their links (new head slots are added empty); afterwards
\* the level-0 keys are the old ones with k at its sorted position and all
\* other keys and values are unchanged.
C15_PutSplice ==
    [][(last'.op = "Put" /\ WellFormed(sl, heap) /\ Level(sl, heap) >= 1
          /\ last'.key \notin KeySet(sl, heap))
         => /\ ~last'.panic
            /\ last'.h \in 0..sl.maxLevel
            /\ sl' = sl
            /\ Level(sl', heap') = Max({Level(sl, heap), last'.h + 1})
            /\ DOMAIN heap \subseteq DOMAIN heap'
            /\ Cardinality(DOMAIN heap' \ DOMAIN heap) = 1
            /\ \A n \in DOMAIN heap' \ DOMAIN heap :
                 /\ heap'[n].key = last'.key
                 /\ heap'[n].val = last'.val
                 /\ Len(heap'[n].nextNodes) = last'.h + 1
            /\ \A p \in LiveNodes(sl, heap) :
                 /\ heap'[p].key = heap[p].key
                 /\ heap'[p].val = heap[p].val
                 /\ Len(heap'[p].nextNodes) = Len(heap[p].nextNodes)
            /\ \A l \in 0..(Level(sl', heap') - 1) :
                 KeysAt(sl', heap', l) =
                     IF l <= last'.h
                     THEN InsertSorted(KeysAtOrNone(sl, heap, l), last'.key)
                     ELSE KeysAtOrNone(sl, heap, l)]_vars

\* C16: in a well-formed list holding k, Del(k) unlinks k's node at every
\* level it occupies, so that afterwards the node is reachable at no level,
\* the key set is the old one minus k, and every other key keeps its value,
\* its height and its relative order at every level.
C16_DelSplice ==
    [][(last'.op = "Del" /\ WellFormed(sl, heap) /\ last'.key \in KeySet(sl, heap))
         => /\ ~last'.panic
            /\ sl' = sl
            /\ KeySet(sl', heap') = KeySet(sl, heap) \ {last'.key}
            /\ \A l \in 0..(Level(sl, heap) - 1) :
                 KeysAtOrNone(sl', heap', l) = Remove(KeysAt(sl, heap, l), last'.key)
            /\ \A p \in LiveNodes(sl', heap') :
                 /\ p \in LiveNodes(sl, heap)
                 /\ heap'[p].key = heap[p].key
                 /\ heap'[p].val = heap[p].val
                 /\ Len(heap'[p].nextNodes) = Len(heap[p].nextNodes)]_vars

C18_MapRefinement ==
    (sl # NilSL /\ track)
        => /\ {<<heap[p].key, heap[p].val>> : p \in LiveNodes(sl, heap)}
                = {<<k, M[k]>> : k \in DOMAIN M}
           /\ last.op = "Get"
                => IF last.key \in DOMAIN M
                   THEN last.found /\ last.val = M[last.key]
                   ELSE ~last.found

====
